---- MODULE Spec2Model ----
(***************************************************************************)
(* The inventory ledger of materials.go: createMaterial (Receive),         *)
(* moveMaterial (Move), removeMaterial (Remove) and updateMaterial         *)
(* (Adjust) over the tables materials, prices, transactions_log and        *)
(* incoming_materials.                                                     *)
(*                                                                         *)
(* Every store call of the Go code is one step of the calling process.     *)
(* Statements issued on a *sql.Tx write into that transaction's private    *)
(* write set, which becomes visible at Commit and is dropped at Rollback;  *)
(* a written row is locked until then (read committed, row locks).         *)
(* Statements issued on the *sql.DB handle run on their own connection:    *)
(* they see and change the committed tables directly and wait for any row  *)
(* lock, also one held by the caller's own open transaction.               *)
(*                                                                         *)
(* Columns that no command reads back to decide anything (customer,        *)
(* description, notes, thresholds, timestamps) are left out.  Row          *)
(* identities are handed out in increasing order; the gaps a rolled back   *)
(* insert leaves in a sequence are not modelled, since identities are      *)
(* only ever compared for order and equality.                              *)
(***************************************************************************)
EXTENDS Integers, Sequences, FiniteSets, TLC

\* ---------------------------------------------------------------- bounds
\* Commands started in one run of the sequential specification.
MaxCmds == 3
\* Store calls that fail in one run of the sequential specification.
MaxFaults == 1
\* Commands started in one run of the concurrent specification.
ConcCmds == 2

\* ------------------------------------------------------------ the inputs
Procs == {1, 2}
Locs == {"L1", "L2"}
NULL == "NULL"

\* The rows of incoming_materials that sendMaterial has inserted.
Shipments ==
    (1 :> [stock |-> "S1", owner |-> "T", cost |-> 10]) @@
    (2 :> [stock |-> "S1", owner |-> "T", cost |-> 12]) @@
    (3 :> [stock |-> "S2", owner |-> "T", cost |-> 10])

\* material.Qty of a Receive request, and of a Move or Remove request.
RecvQtys == {3, 5}
Qtys == {0, 3, 5, 7, 11}

VARIABLES
    materials,           \* committed rows: id -> [stock, loc, owner, qty, primary]
    prices,              \* committed rows: id -> [mat, qty, cost, init]; init is
                         \* the quantity the lot was inserted with, kept for
                         \* the record only: no statement reads or writes it
    transactions_log,    \* committed rows, in commit order: [price, qty, notes]
    incoming_materials,  \* committed rows: the shipping ids present
    tx,                  \* per process: the write set of its open *sql.Tx
    st,                  \* per process: position and locals of its command
    pre,                 \* per process: the committed tables when its command began
    cmds,                \* commands started so far
    faults,              \* store calls failed so far
    active,              \* the processes that serve commands
    wsSent               \* the last Message broadcast to the websocket clients

vars == <<materials, prices, transactions_log, incoming_materials,
          tx, st, pre, cmds, faults, active, wsSent>>

tables == <<materials, prices, transactions_log, incoming_materials>>

\* ------------------------------------------------------------- utilities
\* No Message has been broadcast yet.
NoMessage == [type |-> "none", data |-> 0]

Max(S) == CHOOSE x \in S : \A y \in S : y <= x

NewId(S) == IF S = {} THEN 1 ELSE Max(S) + 1

RECURSIVE SumQty(_, _)
SumQty(f, S) ==
    IF S = {} THEN 0
    ELSE LET x == CHOOSE y \in S : TRUE
         IN f[x].qty + SumQty(f, S \ {x})

RECURSIVE SumSeqQty(_)
SumSeqQty(s) == IF s = <<>> THEN 0 ELSE Head(s).qty + SumSeqQty(Tail(s))

Db == [materials |-> materials, prices |-> prices,
       log |-> transactions_log, incoming |-> incoming_materials]

EmptyTx == [open |-> FALSE, mats |-> <<>>, prices |-> <<>>, log |-> <<>>, del |-> {}]

NoRow == [stock |-> "", loc |-> NULL, owner |-> "", qty |-> 0, cost |-> 0]

IdleSt ==
    [pc |-> "idle", cmd |-> "none", id |-> 0, loc |-> NULL, qty |-> 0,
     result |-> "none", cur |-> NoRow, matId |-> 0, priceId |-> 0,
     snap |-> <<>>, order |-> <<>>, remaining |-> 0, take |-> 0, lot |-> 0,
     removed |-> <<>>, i |-> 0, deferRetire |-> FALSE, primary |-> FALSE,
     failed |-> FALSE]

\* ------------------------------------------- what a transaction sees/locks
\* A SELECT of incoming_materials that still finds a shipment already deleted.
IncomingViewStale(p) == DOMAIN Shipments

\* The rows a statement of p's transaction reads: the committed rows, with
\* p's own uncommitted writes on top.
MatsView(p) == tx[p].mats @@ materials
PricesView(p) == tx[p].prices @@ prices
IncomingView(p) == incoming_materials \ tx[p].del

AllMatIds == DOMAIN materials \cup UNION {DOMAIN tx[q].mats : q \in Procs}
AllPriceIds == DOMAIN prices \cup UNION {DOMAIN tx[q].prices : q \in Procs}

\* Row locks: a row written by an open transaction is locked until it ends.
MatLockedByOther(p, id) == \E q \in Procs \ {p} : id \in DOMAIN tx[q].mats
MatLocked(id) == \E q \in Procs : id \in DOMAIN tx[q].mats
PriceLockedByOther(p, id) == \E q \in Procs \ {p} : id \in DOMAIN tx[q].prices

\* One store call may fail instead of taking effect, while the budget lasts.
FaultChoice == IF faults < MaxFaults THEN {FALSE, TRUE} ELSE {FALSE}

\* ------------------------------------------------------ leaving a command
\* One step of p: its locals become s, its write set w; a failed store call
\* uses up the fault budget and is remembered in st[p].failed.
Step(p, s, w, failed) ==
    /\ st' = [st EXCEPT ![p] = [s EXCEPT !.failed = @ \/ failed]]
    /\ tx' = [tx EXCEPT ![p] = w]
    /\ faults' = IF failed THEN faults + 1 ELSE faults
    /\ UNCHANGED <<tables, pre, cmds, active, wsSent>>

\* An error return that forgets tx.Rollback(): the deferred tx.Commit() then
\* commits what the command wrote before the failure.
AbortWithoutRollback(p, err, failed) ==
    Step(p, [st[p] EXCEPT !.pc = "commit", !.result = err], tx[p], failed)

\* tx.Rollback() followed by return err: the write set is dropped, the
\* deferred tx.Commit() (and moveMaterial's deferred retire) then act on a
\* finished transaction and do nothing.
Abort(p, err, failed) ==
    Step(p, [st[p] EXCEPT !.pc = "idle", !.result = err], EmptyTx, failed)

\* return without tx.Rollback(): the deferred calls run on the open
\* transaction, moveMaterial's deferred retire first, then tx.Commit().
Return(p, s, err, failed) ==
    Step(p, [s EXCEPT !.pc = IF s.deferRetire THEN "mv_retire" ELSE "commit",
                      !.result = err],
         tx[p], failed)

\* defer tx.Commit(): the write set becomes the committed rows.
Commit(p) ==
    /\ st[p].pc = "commit"
    /\ materials' = tx[p].mats @@ materials
    /\ prices' = tx[p].prices @@ prices
    /\ transactions_log' = transactions_log \o tx[p].log
    /\ incoming_materials' = incoming_materials \ tx[p].del
    /\ tx' = [tx EXCEPT ![p] = EmptyTx]
    /\ st' = [st EXCEPT ![p].pc = "idle"]
    /\ UNCHANGED <<pre, cmds, faults, active, wsSent>>

\* ------------------------------------------------- the lot store (prices)
\* getMaterialPrices: the live lots of a material as a Go map priceId -> qty.
getMaterialPrices(p, materialId) ==
    LET v == PricesView(p)
        live == {i \in DOMAIN v : v[i].mat = materialId /\ v[i].qty > 0}
    IN [i \in live |-> v[i].qty]

\* updatePriceQty: quantity = quantity + delta on one lot, RETURNING cost.
updatePriceQty(p, priceId, delta) ==
    [PricesView(p)[priceId] EXCEPT !.qty = @ + delta]

\* A conflict target of (material_id) alone: lots of different cost merge.
PriceConflictAnyCost(v, materialId, cost) ==
    {i \in DOMAIN v : v[i].mat = materialId}

\* The lot the ON CONFLICT (material_id, cost) clause of upsertPrice hits.
PriceConflict(v, materialId, cost) ==
    {i \in DOMAIN v : v[i].mat = materialId /\ v[i].cost = cost}

\* upsertPrice waits while another transaction holds the conflicting lot,
\* written or inserted and not yet committed.
upsertPriceWaits(p, materialId, cost) ==
    \E q \in Procs \ {p} : PriceConflict(tx[q].prices @@ prices, materialId, cost)
                              \cap DOMAIN tx[q].prices # {}

\* An INSERT INTO prices without the ON CONFLICT clause.
upsertPriceAlwaysInserts(p, materialId, qty, cost) ==
    [id |-> NewId(AllPriceIds),
     row |-> [mat |-> materialId, qty |-> qty, cost |-> cost, init |-> qty]]

\* upsertPrice: INSERT ... ON CONFLICT (material_id, cost) DO UPDATE SET
\* quantity = prices.quantity + EXCLUDED.quantity RETURNING price_id.
upsertPrice(p, materialId, qty, cost) ==
    LET v == PricesView(p)
        hit == PriceConflict(v, materialId, cost)
    IN IF hit # {}
       THEN LET i == CHOOSE j \in hit : TRUE
            IN [id |-> i, row |-> [v[i] EXCEPT !.qty = @ + qty]]
       ELSE [id |-> NewId(AllPriceIds),
             row |-> [mat |-> materialId, qty |-> qty, cost |-> cost, init |-> qty]]

\* A ledger that records the size of a change and not its sign.
addTranscationUnsigned(log, priceId, qty, notes) ==
    Append(log, [price |-> priceId, qty |-> IF qty < 0 THEN -qty ELSE qty,
                 notes |-> notes])

\* addTranscation: one row appended to transactions_log.
addTranscation(log, priceId, qty, notes) ==
    Append(log, [price |-> priceId, qty |-> qty, notes |-> notes])

\* --------------------------------------------- the material location store
\* WHERE stock_id = $ AND location_id = $ AND owner = $
MatchLocation(v, stock, loc, owner) ==
    {i \in DOMAIN v : v[i].stock = stock /\ v[i].loc = loc /\ v[i].owner = owner}

\* A Receive that never looks for an unplaced record to reuse.
MatchUnplacedNever(v, stock, owner) == {}

\* WHERE location_id is NULL AND stock_id = $ AND owner = $
MatchUnplaced(v, stock, owner) ==
    {i \in DOMAIN v : v[i].stock = stock /\ v[i].loc = NULL /\ v[i].owner = owner}

\* for rows.Next() { rows.Scan(&materialId) }: the last row returned, in the
\* order the store returns them, or Go's zero value when there is none.
LastScanned(S) == IF S = {} THEN {0} ELSE S

\* INSERT INTO materials ... RETURNING material_id
NewMaterial(stock, loc, owner, qty) ==
    [stock |-> stock, loc |-> loc, owner |-> owner, qty |-> qty, primary |-> FALSE]

\* ------------------------------------------------ createMaterial (Receive)
BeginReceive(p) ==
    /\ p \in active
    /\ st[p].pc = "idle"
    /\ cmds < (IF active = {1} THEN MaxCmds ELSE ConcCmds)
    /\ \E sid \in DOMAIN Shipments, loc \in Locs, q \in RecvQtys :
         st' = [st EXCEPT ![p] = [IdleSt EXCEPT !.pc = "cm_selectIncoming",
                     !.cmd = "Receive", !.id = sid, !.loc = loc, !.qty = q,
                     !.result = "running"]]
    /\ tx' = [tx EXCEPT ![p] = [EmptyTx EXCEPT !.open = TRUE]]
    /\ pre' = [pre EXCEPT ![p] = Db]
    /\ cmds' = cmds + 1
    /\ UNCHANGED <<tables, faults, active, wsSent>>

\* SELECT ... FROM incoming_materials WHERE shipping_id = $1
cm_selectIncoming(p) ==
    /\ st[p].pc = "cm_selectIncoming"
    /\ \E f \in FaultChoice :
         IF f THEN Abort(p, "StoreError", TRUE)
         ELSE IF st[p].id \notin IncomingView(p) THEN Abort(p, "NotFound", FALSE)
         ELSE Step(p, [st[p] EXCEPT !.pc = "cm_updateLocation",
                           !.cur = [NoRow EXCEPT !.stock = Shipments[st[p].id].stock,
                                                 !.owner = Shipments[st[p].id].owner,
                                                 !.cost = Shipments[st[p].id].cost]],
                   tx[p], FALSE)

\* UPDATE materials SET quantity = (quantity + $1) WHERE stock_id = $3 AND
\* location_id = $4 AND owner = $5 RETURNING material_id
cm_updateLocation(p) ==
    LET v == MatsView(p)
        hit == MatchLocation(v, st[p].cur.stock, st[p].loc, st[p].cur.owner)
    IN /\ st[p].pc = "cm_updateLocation"
       /\ \A i \in hit : ~MatLockedByOther(p, i)
       /\ \E f \in FaultChoice, m \in LastScanned(hit) :
            IF f THEN Abort(p, "StoreError", TRUE)
            ELSE Step(p, [st[p] EXCEPT !.matId = m,
                              !.pc = IF m # 0 THEN "cm_upsertPrice" ELSE "cm_selectNull"],
                      [tx[p] EXCEPT !.mats =
                           [i \in hit |-> [v[i] EXCEPT !.qty = @ + st[p].qty]] @@ @],
                      FALSE)

\* SELECT material_id FROM materials WHERE location_id is NULL AND ...
cm_selectNull(p) ==
    LET hit == MatchUnplaced(MatsView(p), st[p].cur.stock, st[p].cur.owner)
    IN /\ st[p].pc = "cm_selectNull"
       /\ \E f \in FaultChoice, m \in LastScanned(hit) :
            IF f THEN Abort(p, "StoreError", TRUE)
            ELSE Step(p, [st[p] EXCEPT !.matId = m,
                              !.pc = IF m # 0 THEN "cm_relocate" ELSE "cm_insert"],
                      tx[p], FALSE)

\* UPDATE materials SET quantity = $1, location_id = $3 WHERE material_id = $4
cm_relocate(p) ==
    LET v == MatsView(p)
        m == st[p].matId
    IN /\ st[p].pc = "cm_relocate"
       /\ ~MatLockedByOther(p, m)
       /\ \E f \in FaultChoice :
            IF f THEN Abort(p, "StoreError", TRUE)
            ELSE Step(p, [st[p] EXCEPT !.pc = "cm_upsertPrice"],
                      [tx[p] EXCEPT !.mats =
                           (m :> [v[m] EXCEPT !.qty = st[p].qty, !.loc = st[p].loc]) @@ @],
                      FALSE)

\* INSERT INTO materials (...) VALUES (...) RETURNING material_id
cm_insert(p) ==
    LET m == NewId(AllMatIds)
    IN /\ st[p].pc = "cm_insert"
       /\ \E f \in FaultChoice :
            IF f THEN Abort(p, "StoreError", TRUE)
            ELSE Step(p, [st[p] EXCEPT !.pc = "cm_upsertPrice", !.matId = m],
                      [tx[p] EXCEPT !.mats =
                           (m :> NewMaterial(st[p].cur.stock, st[p].loc,
                                             st[p].cur.owner, st[p].qty)) @@ @],
                      FALSE)

\* priceId, err = upsertPrice(tx, Price{materialId, qty, incomingMaterial.Cost})
cm_upsertPrice(p) ==
    /\ st[p].pc = "cm_upsertPrice"
    /\ ~upsertPriceWaits(p, st[p].matId, st[p].cur.cost)
    /\ \E f \in FaultChoice :
         IF f THEN Abort(p, "StoreError", TRUE)
         ELSE LET u == upsertPrice(p, st[p].matId, st[p].qty, st[p].cur.cost)
              IN Step(p, [st[p] EXCEPT !.pc = "cm_deleteIncoming", !.priceId = u.id],
                      [tx[p] EXCEPT !.prices = (u.id :> u.row) @@ @], FALSE)

\* A Receive that leaves the shipment in incoming_materials.
deleteIncomingMaterialSkipped(p, shippingId) == tx[p].del

\* deleteIncomingMaterial: DELETE FROM incoming_materials WHERE shipping_id = $1
\* (no error when no row is left to delete).
deleteIncomingMaterial(p, shippingId) ==
    tx[p].del \cup ({shippingId} \cap incoming_materials)

cm_deleteIncoming(p) ==
    /\ st[p].pc = "cm_deleteIncoming"
    /\ \A q \in Procs \ {p} : st[p].id \notin tx[q].del
    /\ \E f \in FaultChoice :
         IF f THEN Abort(p, "StoreError", TRUE)
         ELSE Step(p, [st[p] EXCEPT !.pc = "cm_addTransaction"],
                   [tx[p] EXCEPT !.del = deleteIncomingMaterial(p, st[p].id)], FALSE)

\* addTranscation(trxInfo, tx); return materialId, nil
cm_addTransaction(p) ==
    /\ st[p].pc = "cm_addTransaction"
    /\ \E f \in FaultChoice :
         IF f THEN Abort(p, "StoreError", TRUE)
         ELSE Step(p, [st[p] EXCEPT !.pc = "commit", !.result = "ok"],
                   [tx[p] EXCEPT !.log = addTranscation(@, st[p].priceId, st[p].qty,
                                                        "Received")],
                   FALSE)

\* ------------------------------------------------------- getMaterialById
\* SELECT * FROM materials WHERE material_id = $1, scanned into a MaterialDB:
\* no row is an error, and so is a NULL location_id, which Scan cannot
\* store in the int field LocationID.
getMaterialByIdFails(p, materialId) ==
    \/ materialId \notin DOMAIN MatsView(p)
    \/ MatsView(p)[materialId].loc = NULL

getMaterialById(p, materialId) ==
    LET r == MatsView(p)[materialId]
    IN [NoRow EXCEPT !.stock = r.stock, !.loc = r.loc, !.owner = r.owner, !.qty = r.qty]

\* if actualQuantity < quantity { return errors.New(...) }
ExceedsActual(actualQuantity, quantity) == actualQuantity < quantity

\* --------------------------------------------------------- removePricesFIFO
Orders(S) ==
    {s \in [1..Cardinality(S) -> S] : \A i, j \in 1..Cardinality(S) : s[i] = s[j] => i = j}

\* for priceId, priceInfo := range materialPrices: Go visits the keys of a
\* map in an order it does not specify.
RangeOrders(m) == Orders(DOMAIN m)

FifoNotes(cmd) ==
    IF cmd = "Move" THEN "Moved TO a Location" ELSE "Removed FROM a Location"

\* Where the caller goes on after removePricesFIFO has returned nil.
AfterFifo(s) ==
    IF s.cmd = "Remove"
    THEN [s EXCEPT !.pc = "commit", !.result = "ok"]
    ELSE [s EXCEPT !.pc = "mv_updateDest"]

\* materialPrices, err := getMaterialPrices(tx, materialId)
fifo_getPrices(p) ==
    LET m == getMaterialPrices(p, st[p].id)
    IN /\ st[p].pc = "fifo_getPrices"
       /\ \E f \in FaultChoice, o \in RangeOrders(m) :
            IF f THEN Abort(p, "StoreError", TRUE)
            ELSE LET s == [st[p] EXCEPT !.snap = m, !.order = o,
                                        !.remaining = st[p].qty, !.removed = <<>>]
                 IN Step(p, IF o = <<>> THEN AfterFifo(s)
                            ELSE [s EXCEPT !.pc = "fifo_updatePrice"],
                         tx[p], FALSE)

\* qtyToRemove of one iteration: the whole rest when the lot holds it,
\* else the whole lot.
QtyToRemove(remainingQty, lotQty) ==
    IF remainingQty <= lotQty THEN remainingQty ELSE lotQty

\* cost, err := updatePriceQty(tx, &Price{priceId, qty: -qtyToRemove})
fifo_updatePrice(p) ==
    LET lot == Head(st[p].order)
        take == QtyToRemove(st[p].remaining, st[p].snap[lot])
    IN /\ st[p].pc = "fifo_updatePrice"
       /\ ~PriceLockedByOther(p, lot)
       /\ \E f \in FaultChoice :
            IF f THEN Abort(p, "StoreError", TRUE)
            ELSE Step(p, [st[p] EXCEPT !.pc = "fifo_log", !.lot = lot, !.take = take],
                      [tx[p] EXCEPT !.prices = (lot :> updatePriceQty(p, lot, -take)) @@ @],
                      FALSE)

\* addTranscation(...); removedPrices = append(removedPrices, ...); then
\* break, or the next key of the map.
fifo_log(p) ==
    LET lot == st[p].lot
        take == st[p].take
        last == st[p].remaining <= st[p].snap[lot]
        s == [st[p] EXCEPT
                 !.removed = Append(@, [qty |-> take, cost |-> PricesView(p)[lot].cost]),
                 !.remaining = IF last THEN 0 ELSE @ - take,
                 !.order = Tail(@)]
    IN /\ st[p].pc = "fifo_log"
       /\ \E f \in FaultChoice :
            IF f THEN Abort(p, "StoreError", TRUE)
            ELSE Step(p, IF last \/ s.order = <<>> THEN AfterFifo(s)
                         ELSE [s EXCEPT !.pc = "fifo_updatePrice"],
                      [tx[p] EXCEPT !.log = addTranscation(@, lot, -take, FifoNotes(st[p].cmd))],
                      FALSE)

\* ------------------------------------------------- removeMaterial (Remove)
BeginRemove(p) ==
    /\ p \in active
    /\ st[p].pc = "idle"
    /\ cmds < (IF active = {1} THEN MaxCmds ELSE ConcCmds)
    /\ \E m \in DOMAIN materials, q \in Qtys :
         st' = [st EXCEPT ![p] = [IdleSt EXCEPT !.pc = "rm_getMaterial",
                     !.cmd = "Remove", !.id = m, !.qty = q, !.result = "running"]]
    /\ tx' = [tx EXCEPT ![p] = [EmptyTx EXCEPT !.open = TRUE]]
    /\ pre' = [pre EXCEPT ![p] = Db]
    /\ cmds' = cmds + 1
    /\ UNCHANGED <<tables, faults, active, wsSent>>

\* currMaterial, err := getMaterialById(materialId, tx), rolled back on error;
\* then the comparison of actualQuantity with quantity.
rm_getMaterial(p) ==
    /\ st[p].pc = "rm_getMaterial"
    /\ \E f \in FaultChoice :
         IF f THEN Abort(p, "StoreError", TRUE)
         ELSE IF getMaterialByIdFails(p, st[p].id) THEN Abort(p, "LoadError", FALSE)
         ELSE LET cur == getMaterialById(p, st[p].id)
                  s == [st[p] EXCEPT !.cur = cur]
              IN IF ExceedsActual(cur.qty, st[p].qty)
                 THEN Return(p, s, "InvalidQuantity", FALSE)
                 ELSE Step(p, [s EXCEPT !.pc = IF cur.qty = st[p].qty
                                               THEN "rm_retire" ELSE "rm_decrement"],
                           tx[p], FALSE)

\* UPDATE materials SET location_id = NULL, quantity = 0 WHERE material_id = $1
Retire(row) == [row EXCEPT !.loc = NULL, !.qty = 0]

rm_retire(p) ==
    LET m == st[p].id
    IN /\ st[p].pc = "rm_retire"
       /\ ~MatLockedByOther(p, m)
       /\ \E f \in FaultChoice :
            IF f THEN Abort(p, "StoreError", TRUE)
            ELSE Step(p, [st[p] EXCEPT !.pc = "fifo_getPrices"],
                      [tx[p] EXCEPT !.mats = (m :> Retire(MatsView(p)[m])) @@ @], FALSE)

\* UPDATE materials SET quantity = (quantity - $1) WHERE material_id = $2
Decrement(row, quantity) == [row EXCEPT !.qty = @ - quantity]

rm_decrement(p) ==
    LET m == st[p].id
    IN /\ st[p].pc = "rm_decrement"
       /\ ~MatLockedByOther(p, m)
       /\ \E f \in FaultChoice :
            IF f THEN Abort(p, "StoreError", TRUE)
            ELSE Step(p, [st[p] EXCEPT !.pc = "fifo_getPrices"],
                      [tx[p] EXCEPT !.mats =
                           (m :> Decrement(MatsView(p)[m], st[p].qty)) @@ @], FALSE)

\* ----------------------------------------------------- moveMaterial (Move)
BeginMove(p) ==
    /\ p \in active
    /\ st[p].pc = "idle"
    /\ cmds < (IF active = {1} THEN MaxCmds ELSE ConcCmds)
    /\ \E m \in DOMAIN materials, loc \in Locs, q \in Qtys :
         st' = [st EXCEPT ![p] = [IdleSt EXCEPT !.pc = "mv_getMaterial",
                     !.cmd = "Move", !.id = m, !.loc = loc, !.qty = q,
                     !.result = "running"]]
    /\ tx' = [tx EXCEPT ![p] = [EmptyTx EXCEPT !.open = TRUE]]
    /\ pre' = [pre EXCEPT ![p] = Db]
    /\ cmds' = cmds + 1
    /\ UNCHANGED <<tables, faults, active, wsSent>>

\* currMaterial, err := getMaterialById(materialId, tx), returned without a
\* rollback on error; then the comparison of actualQuantity with quantity,
\* whose equal branch only defers the retiring UPDATE to the function's exit.
mv_getMaterial(p) ==
    /\ st[p].pc = "mv_getMaterial"
    /\ \E f \in FaultChoice :
         IF f THEN Return(p, st[p], "StoreError", TRUE)
         ELSE IF getMaterialByIdFails(p, st[p].id) THEN Return(p, st[p], "LoadError", FALSE)
         ELSE LET cur == getMaterialById(p, st[p].id)
                  s == [st[p] EXCEPT !.cur = cur]
              IN IF ExceedsActual(cur.qty, st[p].qty)
                 THEN Return(p, s, "InvalidQuantity", FALSE)
                 ELSE IF cur.qty > st[p].qty
                 THEN Step(p, [s EXCEPT !.pc = "mv_decrement"], tx[p], FALSE)
                 ELSE Step(p, [s EXCEPT !.pc = "fifo_getPrices", !.deferRetire = TRUE],
                           tx[p], FALSE)

\* UPDATE materials SET quantity = (quantity - $1) WHERE material_id = $3 AND
\* location_id = $4 RETURNING ...: no row returned is an error of Scan.
mv_decrement(p) ==
    LET m == st[p].id
        v == MatsView(p)
    IN /\ st[p].pc = "mv_decrement"
       /\ ~MatLockedByOther(p, m)
       /\ \E f \in FaultChoice :
            IF f THEN Abort(p, "StoreError", TRUE)
            ELSE IF v[m].loc # st[p].cur.loc THEN Abort(p, "LoadError", FALSE)
            ELSE Step(p, [st[p] EXCEPT !.pc = "fifo_getPrices"],
                      [tx[p] EXCEPT !.mats = (m :> Decrement(v[m], st[p].qty)) @@ @],
                      FALSE)

\* A destination UPDATE that takes an unplaced record as well, as the
\* resolution of createMaterial does.
DestRowsOrUnplaced(stock, loc, owner) ==
    MatchLocation(materials, stock, loc, owner) \cup MatchUnplaced(materials, stock, owner)

\* The rows the destination UPDATE of moveMaterial changes. It is issued on
\* db, not on tx: it reads the committed rows and commits on its own.
DestRows(stock, loc, owner) == MatchLocation(materials, stock, loc, owner)

\* for i := 0; i < len(removedPrices); i++: the loop's next step, or return nil.
AfterDest(s) ==
    IF s.i < Len(s.removed)
    THEN [s EXCEPT !.pc = "mv_upsertPrice"]
    ELSE [s EXCEPT !.pc = IF s.deferRetire THEN "mv_retire" ELSE "commit",
                   !.result = "ok"]

\* rows, err := db.Query(`UPDATE materials SET quantity = (quantity + $1)
\* WHERE stock_id = $2 AND location_id = $3 AND owner = $4 RETURNING material_id`)
mv_updateDest(p) ==
    LET hit == DestRows(st[p].cur.stock, st[p].loc, st[p].cur.owner)
    IN /\ st[p].pc = "mv_updateDest"
       /\ \A i \in hit : ~MatLocked(i)
       /\ \E f \in FaultChoice, m \in LastScanned(hit) :
            IF f THEN Return(p, st[p], "StoreError", TRUE)
            ELSE /\ materials' = [i \in hit |-> [materials[i] EXCEPT !.qty = @ + st[p].qty]]
                                    @@ materials
                 /\ st' = [st EXCEPT ![p] =
                              IF m = 0 THEN [st[p] EXCEPT !.pc = "mv_insertDest"]
                              ELSE AfterDest([st[p] EXCEPT !.matId = m, !.i = 0])]
                 /\ UNCHANGED <<prices, transactions_log, incoming_materials,
                                tx, pre, cmds, faults, active, wsSent>>

\* err = db.QueryRow(`INSERT INTO materials (...) RETURNING material_id`)
mv_insertDest(p) ==
    LET m == NewId(AllMatIds)
    IN /\ st[p].pc = "mv_insertDest"
       /\ \E f \in FaultChoice :
            IF f THEN Return(p, st[p], "StoreError", TRUE)
            ELSE /\ materials' = (m :> NewMaterial(st[p].cur.stock, st[p].loc,
                                                   st[p].cur.owner, st[p].qty)) @@ materials
                 /\ st' = [st EXCEPT ![p] = AfterDest([st[p] EXCEPT !.matId = m, !.i = 0])]
                 /\ UNCHANGED <<prices, transactions_log, incoming_materials,
                                tx, pre, cmds, faults, active, wsSent>>

\* priceId, err := upsertPrice(tx, Price{newMaterialId, qty, cost}) for
\* removedPrices[i]
mv_upsertPrice(p) ==
    LET r == st[p].removed[st[p].i + 1]
    IN /\ st[p].pc = "mv_upsertPrice"
       /\ ~upsertPriceWaits(p, st[p].matId, r.cost)
       /\ \E f \in FaultChoice :
            IF f THEN Abort(p, "StoreError", TRUE)
            ELSE LET u == upsertPrice(p, st[p].matId, r.qty, r.cost)
                 IN Step(p, [st[p] EXCEPT !.pc = "mv_log", !.priceId = u.id],
                         [tx[p] EXCEPT !.prices = (u.id :> u.row) @@ @], FALSE)

\* addTranscation(...) for the lot just upserted; i++
mv_log(p) ==
    LET r == st[p].removed[st[p].i + 1]
    IN /\ st[p].pc = "mv_log"
       /\ \E f \in FaultChoice :
            IF f THEN Abort(p, "StoreError", TRUE)
            ELSE Step(p, AfterDest([st[p] EXCEPT !.i = @ + 1]),
                      [tx[p] EXCEPT !.log = addTranscation(@, st[p].priceId, r.qty,
                                                           "Moved FROM a Location")],
                      FALSE)

\* The deferred func of the equal branch: tx.Exec(`UPDATE materials SET
\* location_id = NULL, quantity = 0 WHERE material_id = $1`), with a rollback
\* on error; what it returns is dropped, so the result of Move stands.
mv_retire(p) ==
    LET m == st[p].id
    IN /\ st[p].pc = "mv_retire"
       /\ ~MatLockedByOther(p, m)
       /\ \E f \in FaultChoice :
            IF f THEN Step(p, [st[p] EXCEPT !.pc = "idle"], EmptyTx, TRUE)
            ELSE Step(p, [st[p] EXCEPT !.pc = "commit"],
                      [tx[p] EXCEPT !.mats = (m :> Retire(MatsView(p)[m])) @@ @], FALSE)

\* ---------------------------------------------------- updateMaterial (Adjust)
\* An UPDATE that flips the flag instead of setting it.
SetPrimaryFlipped(row, isPrimary) == [row EXCEPT !.primary = ~@]

\* db.Exec(`UPDATE materials SET is_primary = $2 WHERE material_id = $1`)
SetPrimary(row, isPrimary) == [row EXCEPT !.primary = isPrimary]

updateMaterial(p) ==
    /\ p \in active
    /\ st[p].pc = "idle"
    /\ cmds < (IF active = {1} THEN MaxCmds ELSE ConcCmds)
    /\ \E m \in DOMAIN materials, b \in BOOLEAN, f \in FaultChoice :
         /\ ~MatLocked(m)
         /\ st' = [st EXCEPT ![p] = [IdleSt EXCEPT !.cmd = "Adjust", !.id = m,
                        !.primary = b, !.failed = f,
                        !.result = IF f THEN "StoreError" ELSE "ok"]]
         /\ materials' = IF f THEN materials
                         ELSE [materials EXCEPT ![m] = SetPrimary(@, b)]
         /\ faults' = IF f THEN faults + 1 ELSE faults
    /\ pre' = [pre EXCEPT ![p] = Db]
    /\ cmds' = cmds + 1
    /\ UNCHANGED <<prices, transactions_log, incoming_materials, tx, active, wsSent>>

\* ------------------------------------------------- the websocket clients
\* What a client may write to its connection.
ClientMessages == {"materialsUpdated", "ping"}

\* handleSendMaterial: the number of incoming materials, broadcast to all
\* clients as a Message of type "incomingMaterialsQty"; nothing is sent when
\* getIncomingMaterials fails.
handleSendMaterial(failed) ==
    IF failed THEN wsSent
    ELSE [type |-> "incomingMaterialsQty", data |-> Cardinality(incoming_materials)]

\* reader: one message read from a client; "materialsUpdated" is the only one
\* acted upon. No command of the engine calls broadcastMessage.
reader ==
    \E msg \in ClientMessages, f \in FaultChoice :
        /\ f => msg = "materialsUpdated"
        /\ wsSent' = IF msg = "materialsUpdated" THEN handleSendMaterial(f) ELSE wsSent
        /\ faults' = IF f THEN faults + 1 ELSE faults
        /\ UNCHANGED <<tables, tx, st, pre, cmds, active>>

\* ------------------------------------------------------ the specification
EmptyDbInit ==
    /\ materials = <<>>
    /\ prices = <<>>
    /\ transactions_log = <<>>
    /\ incoming_materials = DOMAIN Shipments

Init ==
    /\ EmptyDbInit
    /\ tx = [p \in Procs |-> EmptyTx]
    /\ st = [p \in Procs |-> IdleSt]
    /\ pre = [p \in Procs |-> Db]
    /\ cmds = 0
    /\ faults = 0
    /\ active = {1}
    /\ wsSent = NoMessage

Next ==
    \E p \in Procs :
        \/ BeginReceive(p)
        \/ cm_selectIncoming(p)
        \/ cm_updateLocation(p)
        \/ cm_selectNull(p)
        \/ cm_relocate(p)
        \/ cm_insert(p)
        \/ cm_upsertPrice(p)
        \/ cm_deleteIncoming(p)
        \/ cm_addTransaction(p)
        \/ BeginRemove(p)
        \/ rm_getMaterial(p)
        \/ rm_retire(p)
        \/ rm_decrement(p)
        \/ fifo_getPrices(p)
        \/ fifo_updatePrice(p)
        \/ fifo_log(p)
        \/ BeginMove(p)
        \/ mv_getMaterial(p)
        \/ mv_decrement(p)
        \/ mv_updateDest(p)
        \/ mv_insertDest(p)
        \/ mv_upsertPrice(p)
        \/ mv_log(p)
        \/ mv_retire(p)
        \/ updateMaterial(p)
        \/ Commit(p)

Spec == Init /\ [][Next]_vars

\* The engine together with the websocket clients. Every handler and the
\* read loop of every connection run in goroutines of their own, which the Go
\* scheduler does not starve.
WsNext == Next \/ reader

\* The empty store, one process, and every store call succeeds.
WsInit ==
    /\ EmptyDbInit
    /\ tx = [p \in Procs |-> EmptyTx]
    /\ st = [p \in Procs |-> IdleSt]
    /\ pre = [p \in Procs |-> Db]
    /\ cmds = 0
    /\ faults = MaxFaults
    /\ active = {1}
    /\ wsSent = NoMessage

WsSpec == WsInit /\ [][WsNext]_vars /\ WF_vars(WsNext)

\* The materials table of ConcInit.
ConcMaterials == (1 :> NewMaterial("S1", "L1", "T", 5))

\* Two processes serve commands at once, every store call succeeds, and the
\* tables are as Receive(shipment 1, "L1", 5) leaves an empty store.
ConcInit ==
    /\ materials = ConcMaterials
    /\ prices = (1 :> [mat |-> 1, qty |-> 5, cost |-> 10, init |-> 5])
    /\ transactions_log = <<[price |-> 1, qty |-> 5, notes |-> "Received"]>>
    /\ incoming_materials = {2, 3}
    /\ tx = [p \in Procs |-> EmptyTx]
    /\ st = [p \in Procs |-> IdleSt]
    /\ pre = [p \in Procs |-> Db]
    /\ cmds = 0
    /\ faults = MaxFaults
    /\ active = Procs
    /\ wsSent = NoMessage

ConcSpec == ConcInit /\ [][Next]_vars

\* ------------------------------------------------------------- the properties
\* A command of p has run to its end.
Done(p) == st[p].pc = "idle" /\ st[p].cmd # "none"

\* It returned no error, and none of its store calls failed.
Succeeded(p) == Done(p) /\ st[p].result = "ok" /\ ~st[p].failed

Quiet == \A p \in Procs : st[p].pc = "idle"

LotsOf(pr, m) == {i \in DOMAIN pr : pr[i].mat = m}
LiveLotsOf(pr, m) == {i \in DOMAIN pr : pr[i].mat = m /\ pr[i].qty > 0}
LiveLotSum(pr, m) == SumQty(pr, LiveLotsOf(pr, m))
LotSum(pr, m) == SumQty(pr, LotsOf(pr, m))
QtyOf(ms, m) == IF m \in DOMAIN ms THEN ms[m].qty ELSE 0

\* The ledger rows the last command of p committed.
NewLog(p) == SubSeq(transactions_log, Len(pre[p].log) + 1, Len(transactions_log))

\* The sum of the deltas of the ledger rows of `log` written for the lots in
\* L with the given notes.
RECURSIVE LogSum(_, _, _)
LogSum(log, L, notes) ==
    IF log = <<>> THEN 0
    ELSE (IF Head(log).price \in L /\ Head(log).notes = notes THEN Head(log).qty ELSE 0)
         + LogSum(Tail(log), L, notes)

\* The sum of the deltas of all ledger rows of `log` for lot l.
RECURSIVE LogSumAll(_, _)
LogSumAll(log, l) ==
    IF log = <<>> THEN 0
    ELSE (IF Head(log).price = l THEN Head(log).qty ELSE 0) + LogSumAll(Tail(log), l)

Costs == {Shipments[s].cost : s \in DOMAIN Shipments}
LotsAt(pr, m, c) == {i \in DOMAIN pr : pr[i].mat = m /\ pr[i].cost = c}
LotQtyAt(pr, m, c) == SumQty(pr, LotsAt(pr, m, c))
StockQty(ms, stock) == SumQty(ms, {i \in DOMAIN ms : ms[i].stock = stock})
PairQty(ms, a, d) == QtyOf(ms, a) + (IF d = a THEN 0 ELSE QtyOf(ms, d))
PairLots(pr, a, d) == LotSum(pr, a) + (IF d = a THEN 0 ELSE LotSum(pr, d))

\* What one Move or Remove c, run alone to its end, returns and makes of the
\* row of its material: moveMaterial and removeMaterial without interleaving.
SerialRun(row, c) ==
    IF row.loc = NULL THEN [row |-> row, res |-> "LoadError"]
    ELSE IF ExceedsActual(row.qty, c.qty) THEN [row |-> row, res |-> "InvalidQuantity"]
    ELSE IF row.qty = c.qty THEN [row |-> Retire(row), res |-> "ok"]
    ELSE IF c.cmd = "Move" /\ c.loc = row.loc THEN [row |-> row, res |-> "never returns"]
    ELSE [row |-> Decrement(row, c.qty), res |-> "ok"]

\* C1: after every Receive, Move, Remove or Adjust has completed, with or
\* without an error, every located material's quantity is the sum of the
\* quantities of its live lots.
C1_QuantityIsLotSum ==
    Quiet => \A m \in DOMAIN materials : materials[m].qty = LiveLotSum(prices, m)

\* C2: FIFO consumption takes from the live lots of a material in ascending
\* lot identity: a successful Move or Remove decrements a lot only if it has
\* reduced every live lot of a smaller identity to 0; so Remove(7) against
\* lots of 5 at cost 10 and 5 at cost 12 takes 5 and 2.
C2_FifoOrder ==
    \A p \in active :
        (Succeeded(p) /\ st[p].cmd \in {"Move", "Remove"}) =>
            LET old == pre[p].prices
                live == LiveLotsOf(old, st[p].id)
                taken(l) == -LogSum(NewLog(p), {l}, FifoNotes(st[p].cmd))
            IN \A l \in live : taken(l) > 0 =>
                   \A k \in live : k < l => taken(k) = old[k].qty

\* C3: a successful Move leaves the quantity of the source and the
\* destination record, taken together, as it was, and the same for the sum
\* of their lots, whatever the destination.
C3_MoveConserves ==
    \A p \in active :
        (Succeeded(p) /\ st[p].cmd = "Move") =>
            LET a == st[p].id
                d == st[p].matId
            IN /\ PairQty(materials, a, d) = PairQty(pre[p].materials, a, d)
               /\ PairLots(prices, a, d) = PairLots(pre[p].prices, a, d)

\* C4: a successful Move adds to the destination, at every unit cost, what
\* its FIFO consumption took from the source at that cost: by the ledger rows
\* it wrote and, the two records being different ones, by the lots themselves.
C4_MovePreservesCost ==
    \A p \in active :
        (Succeeded(p) /\ st[p].cmd = "Move") =>
            LET a == st[p].id
                d == st[p].matId
                added(c) == LogSum(NewLog(p), LotsAt(prices, d, c), "Moved FROM a Location")
                removed(c) == -LogSum(NewLog(p), LotsAt(prices, a, c), "Moved TO a Location")
            IN \A c \in Costs :
                   /\ added(c) = removed(c)
                   /\ Cardinality(LotsAt(prices, d, c)) <= 1
                   /\ a # d =>
                        /\ LotQtyAt(prices, d, c) - LotQtyAt(pre[p].prices, d, c) = added(c)
                        /\ LotQtyAt(pre[p].prices, a, c) - LotQtyAt(prices, a, c) = removed(c)

\* A Move has carried two lots of different cost, in full or in part, to
\* another record.
C4_Witness ==
    \E p \in active :
        /\ Succeeded(p) /\ st[p].cmd = "Move"
        /\ st[p].id # st[p].matId
        /\ Len(st[p].removed) = 2
        /\ \A k \in 1..2 : st[p].removed[k].qty > 0
        /\ \A c \in Costs : LotQtyAt(prices, st[p].matId, c) > 0

\* C5 as stated: every lot's quantity is the quantity it was created with
\* plus the deltas of all its ledger rows.
C5_InitialPlusDeltas ==
    \A l \in DOMAIN prices :
        prices[l].qty = prices[l].init + LogSumAll(transactions_log, l)

\* C5, amended: the quantity a lot is created with is itself written to the
\* ledger, so every lot's quantity is the sum of the deltas of its ledger rows.
C5_QuantityIsDeltaSum ==
    \A l \in DOMAIN prices : prices[l].qty = LogSumAll(transactions_log, l)

\* A lot that was received and then partly consumed.
C5_Witness ==
    \E l \in DOMAIN prices :
        /\ prices[l].qty > 0
        /\ prices[l].qty < prices[l].init
        /\ LogSum(transactions_log, {l}, "Removed FROM a Location") < 0

\* C6: Receive is all or nothing. Until a Receive has returned without an
\* error the committed tables are those it started from; when it has, the
\* shipment is gone and the stock and the lot have grown by its quantity.
C6_ReceiveAllOrNothing ==
    \A p \in active :
        st[p].cmd = "Receive" =>
            IF Done(p) /\ st[p].result = "ok"
            THEN LET stock == Shipments[st[p].id].stock
                     cost == Shipments[st[p].id].cost
                 IN /\ st[p].id \in pre[p].incoming
                    /\ st[p].id \notin incoming_materials
                    /\ StockQty(materials, stock) = StockQty(pre[p].materials, stock) + st[p].qty
                    /\ LotQtyAt(prices, st[p].matId, cost)
                           = LotQtyAt(pre[p].prices, st[p].matId, cost) + st[p].qty
            ELSE Db = pre[p]

\* A Receive that failed after it had written to its transaction.
C6_Witness ==
    \E p \in active :
        /\ Done(p) /\ st[p].cmd = "Receive" /\ st[p].result = "StoreError"
        /\ st[p].matId # 0
        /\ st[p].id \in incoming_materials

\* C7: a Move that returns an error leaves the committed tables as they were
\* when it began.
C7_MoveNeverPartial ==
    \A p \in active :
        (Done(p) /\ st[p].cmd = "Move" /\ st[p].result # "ok") => Db = pre[p]

\* C8: of two Receive commands that name the same shipment, at most one
\* succeeds.
C8_ShipmentConsumedOnce ==
    \A p, q \in Procs :
        (/\ p # q
         /\ Done(p) /\ st[p].cmd = "Receive"
         /\ Done(q) /\ st[q].cmd = "Receive"
         /\ st[p].id = st[q].id)
        => ~(st[p].result = "ok" /\ st[q].result = "ok")

\* C9: two Move or Remove commands on one material serialize: what each
\* returned, and the quantity and location they leave the material with, are
\* those of running the one and then the other, in one of the two orders.
C9_Serialize ==
    (/\ cmds = 2
     /\ Done(1) /\ Done(2)
     /\ st[1].cmd \in {"Move", "Remove"}
     /\ st[2].cmd \in {"Move", "Remove"}
     /\ st[1].id = st[2].id)
    => LET r0 == ConcMaterials[st[1].id]
           a == SerialRun(r0, st[1])
           ab == SerialRun(a.row, st[2])
           b == SerialRun(r0, st[2])
           ba == SerialRun(b.row, st[1])
           end == materials[st[1].id]
       IN \/ st[1].result = a.res /\ st[2].result = ab.res /\ end = ab.row
          \/ st[2].result = b.res /\ st[1].result = ba.res /\ end = ba.row

\* C10: a Move or Remove that asks for more than the material holds fails
\* with InvalidQuantity and changes nothing, no store call failing.
C10_ExceedingFailsInvalidQuantity ==
    \A p \in active :
        (/\ Done(p) /\ ~st[p].failed
         /\ st[p].cmd \in {"Move", "Remove"}
         /\ st[p].qty > pre[p].materials[st[p].id].qty)
        => /\ Db = pre[p]
           /\ st[p].result = "InvalidQuantity"

\* What holds of C10: such a command changes nothing and fails, with
\* InvalidQuantity once the material has been loaded; a retired material,
\* whose location is NULL, fails to load.
C10_ExceedingChangesNothing ==
    \A p \in active :
        (/\ Done(p)
         /\ st[p].cmd \in {"Move", "Remove"}
         /\ st[p].qty > pre[p].materials[st[p].id].qty)
        => /\ Db = pre[p]
           /\ st[p].result \in {"InvalidQuantity", "LoadError", "StoreError"}
           /\ st[p].result = "LoadError" => pre[p].materials[st[p].id].loc = NULL
           /\ st[p].cur # NoRow => st[p].result = "InvalidQuantity"

\* A Remove and a Move that asked for more than there was, after an earlier
\* command had left stock and ledger rows to lose.
C10_Witness ==
    \E p \in active :
        /\ Done(p) /\ st[p].cmd \in {"Move", "Remove"}
        /\ st[p].result = "InvalidQuantity"
        /\ st[p].qty > pre[p].materials[st[p].id].qty
        /\ pre[p].materials[st[p].id].qty > 0
        /\ Len(transactions_log) > 0

\* C11: a successful Move or Remove of exactly the quantity its material
\* holds leaves that material retired: location NULL, quantity 0, and every
\* one of its lots at 0.
C11_ExactQuantityRetires ==
    \A p \in active :
        (/\ Succeeded(p) /\ st[p].cmd \in {"Move", "Remove"}
         /\ pre[p].materials[st[p].id].loc # NULL
         /\ st[p].qty = pre[p].materials[st[p].id].qty)
        => /\ materials[st[p].id].loc = NULL
           /\ materials[st[p].id].qty = 0
           /\ \A l \in LotsOf(prices, st[p].id) : prices[l].qty = 0

\* C12: a Receive of a shipment that an earlier Receive has consumed fails
\* and changes nothing; it fails with NotFound unless the SELECT itself failed.
C12_SecondReceiveNotFound ==
    \A p \in active :
        (Done(p) /\ st[p].cmd = "Receive" /\ st[p].id \notin pre[p].incoming)
        => /\ Db = pre[p]
           /\ st[p].result \in {"NotFound", "StoreError"}
           /\ ~st[p].failed => st[p].result = "NotFound"

\* A second Receive of a shipment has failed with NotFound, the stock and
\* the ledger row of the first one being there to lose.
C12_Witness ==
    \E p \in active :
        /\ Done(p) /\ st[p].cmd = "Receive" /\ st[p].result = "NotFound"
        /\ st[p].id \notin pre[p].incoming
        /\ \E l \in DOMAIN prices : prices[l].cost = Shipments[st[p].id].cost
                                       /\ prices[l].qty > 0
        /\ Len(transactions_log) > 0

\* The FIFO consumption of p's command found live lots holding less than it
\* was asked to remove, and ran through them all.
FifoShort(p) ==
    /\ st[p].cmd \in {"Move", "Remove"}
    /\ st[p].remaining > 0
    /\ SumSeqQty(st[p].removed) + st[p].remaining = st[p].qty
    /\ st[p].order = <<>>

\* C13: when the live lots of a material hold less than FIFO consumption is
\* asked to remove, the Move or Remove fails with InsufficientLots and the
\* committed tables are left as they were.
C13_InsufficientLotsFails ==
    \A p \in active :
        (Done(p) /\ ~st[p].failed /\ FifoShort(p))
        => /\ st[p].result = "InsufficientLots"
           /\ Db = pre[p]

\* C14: a successful Receive of q raises the quantity of the material it
\* resolved by q and puts it at the destination, raises that material's lot
\* at the shipment's cost by q (a new lot if there was none), deletes the
\* shipment, appends one ledger row of +q for that lot, and changes no other
\* material, lot, shipment or ledger row.
C14_ReceiveEffect ==
    \A p \in active :
        (Succeeded(p) /\ st[p].cmd = "Receive") =>
            LET m == st[p].matId
                l == st[p].priceId
                q == st[p].qty
                old == pre[p]
                sh == Shipments[st[p].id]
            IN /\ DOMAIN materials = DOMAIN old.materials \cup {m}
               /\ materials[m] = [stock |-> sh.stock, owner |-> sh.owner,
                                  loc |-> st[p].loc, qty |-> QtyOf(old.materials, m) + q,
                                  primary |-> IF m \in DOMAIN old.materials
                                              THEN old.materials[m].primary ELSE FALSE]
               /\ \A i \in DOMAIN old.materials \ {m} : materials[i] = old.materials[i]
               /\ DOMAIN prices = DOMAIN old.prices \cup {l}
               /\ prices[l].mat = m /\ prices[l].cost = sh.cost
               /\ prices[l].qty = LotQtyAt(old.prices, m, sh.cost) + q
               /\ \A i \in DOMAIN old.prices \ {l} : prices[i] = old.prices[i]
               /\ st[p].id \in old.incoming
               /\ incoming_materials = old.incoming \ {st[p].id}
               /\ transactions_log =
                      Append(old.log, [price |-> l, qty |-> q, notes |-> "Received"])

\* A Receive has added to a material that was there, under a new lot beside
\* one of another cost.
C14_Witness ==
    \E p \in active :
        /\ Succeeded(p) /\ st[p].cmd = "Receive"
        /\ st[p].matId \in DOMAIN pre[p].materials
        /\ pre[p].materials[st[p].matId].qty > 0
        /\ st[p].priceId \notin DOMAIN pre[p].prices
        /\ LotsOf(pre[p].prices, st[p].matId) # {}

\* A materialsChanged event has gone out to the clients.
ChangeEventSent == wsSent.type = "materialsChanged"

\* C15: every successful Receive, Move or Remove is followed by a
\* materialsChanged event to the websocket clients, and none has been sent
\* while no command has succeeded.
C15_ChangeEventFollowsSuccess ==
    /\ \A p \in Procs :
          (Succeeded(p) /\ st[p].cmd \in {"Receive", "Move", "Remove"}) ~> ChangeEventSent
    /\ [](ChangeEventSent => \E p \in Procs : st[p].result = "ok")

\* C16: no state a Move passes through is visible outside its transaction:
\* until the Move has ended, the committed tables are those it began with.
C16_MoveInvisibleUntilCommit ==
    \A p \in active :
        (st[p].cmd = "Move" /\ st[p].pc # "idle") => Db = pre[p]

\* C17: in every committed state, under every interleaving of commands, the
\* quantity of every located material is at least 0.
C17_MaterialQuantityNonNegative ==
    \A m \in DOMAIN materials : materials[m].qty >= 0

\* C18: no lot has a negative quantity in any committed state, commands on
\* one material running concurrently included.
C18_LotQuantityNonNegative ==
    \A l \in DOMAIN prices : prices[l].qty >= 0

\* The ledger rows of `log` with the given notes.
LogRows(log, notes) == {k \in 1..Len(log) : log[k].notes = notes}

\* C19: when the live lots hold what is asked for, FIFO consumption takes from
\* every lot no more than it holds and leaves at most one of the lots it
\* touched live, the takes add up to the request, and it writes one ledger
\* row, of a delta below 0, per lot it took from: none at all for a request
\* of 0.
C19_FifoTakesMin ==
    \A p \in active :
        (/\ Succeeded(p) /\ st[p].cmd \in {"Move", "Remove"}
         /\ st[p].remaining = 0)
        => LET old == pre[p].prices
               notes == FifoNotes(st[p].cmd)
               rows == LogRows(NewLog(p), notes)
               lots == LotsOf(old, st[p].id)
               taken(l) == -LogSum(NewLog(p), {l}, notes)
           IN /\ SumSeqQty(st[p].removed) = st[p].qty
              /\ \A k \in rows : NewLog(p)[k].qty < 0 /\ NewLog(p)[k].price \in lots
              /\ \A l \in lots : taken(l) >= 0 /\ taken(l) <= old[l].qty
              /\ Cardinality({l \in lots : taken(l) > 0 /\ taken(l) < old[l].qty}) <= 1
              /\ Cardinality(rows) = Cardinality({l \in lots : taken(l) > 0})
              /\ Len(st[p].removed) = Cardinality(rows)

\* C20: a successful Receive adds to the record at (stock, destination,
\* owner) when there is one; otherwise it relocates an unplaced record of
\* that stock and owner when there is one; only otherwise does it create a
\* record of a new identity.
C20_ReceiveResolvesInOrder ==
    \A p \in active :
        (Succeeded(p) /\ st[p].cmd = "Receive") =>
            LET old == pre[p].materials
                sh == Shipments[st[p].id]
                same == {i \in DOMAIN old : old[i].stock = sh.stock
                                               /\ old[i].owner = sh.owner}
                atDest == {i \in same : old[i].loc = st[p].loc}
                unplaced == {i \in same : old[i].loc = NULL}
                m == st[p].matId
            IN /\ materials[m].loc = st[p].loc
               /\ IF atDest # {}
                  THEN m \in atDest /\ DOMAIN materials = DOMAIN old
                  ELSE IF unplaced # {}
                  THEN m \in unplaced /\ DOMAIN materials = DOMAIN old
                  ELSE m \notin DOMAIN old /\ DOMAIN materials = DOMAIN old \cup {m}
               /\ \A i \in DOMAIN old \ {m} : materials[i].loc = old[i].loc

\* A Receive has relocated an unplaced record while the same stock had a
\* record at another location.
C20_Witness ==
    \E p \in active :
        /\ Succeeded(p) /\ st[p].cmd = "Receive"
        /\ st[p].matId \in DOMAIN pre[p].materials
        /\ pre[p].materials[st[p].matId].loc = NULL
        /\ materials[st[p].matId].loc = st[p].loc
        /\ \E i \in DOMAIN pre[p].materials :
               /\ pre[p].materials[i].stock = Shipments[st[p].id].stock
               /\ pre[p].materials[i].loc \in Locs \ {st[p].loc}

\* The records of `ms` of one stock and owner that are at loc.
RecordsAt(ms, stock, owner, loc) ==
    {i \in DOMAIN ms : ms[i].stock = stock /\ ms[i].owner = owner /\ ms[i].loc = loc}

\* C21 as stated: a successful Move resolves its destination record as a
\* Receive of the same stock, location and owner would from the same tables:
\* the record at the destination, else an unplaced record, else a new one.
C21_MoveResolvesAsReceive ==
    \A p \in active :
        (Succeeded(p) /\ st[p].cmd = "Move") =>
            LET old == pre[p].materials
                src == old[st[p].id]
                atDest == RecordsAt(old, src.stock, src.owner, st[p].loc)
                unplaced == RecordsAt(old, src.stock, src.owner, NULL)
                m == st[p].matId
            IN IF atDest # {} THEN m \in atDest
               ELSE IF unplaced # {} THEN m \in unplaced
               ELSE m \notin DOMAIN old

\* C21, amended: a successful Move takes the record at the destination when
\* there is one, as Receive does, and otherwise creates a record of a new
\* identity, an unplaced record of the stock and owner being left alone.
C21_MoveReusesExactMatchElseCreates ==
    \A p \in active :
        (Succeeded(p) /\ st[p].cmd = "Move") =>
            LET old == pre[p].materials
                src == old[st[p].id]
                atDest == RecordsAt(old, src.stock, src.owner, st[p].loc)
                unplaced == RecordsAt(old, src.stock, src.owner, NULL)
                m == st[p].matId
            IN /\ IF atDest # {}
                  THEN m \in atDest /\ DOMAIN materials = DOMAIN old
                  ELSE m \notin DOMAIN old /\ DOMAIN materials = DOMAIN old \cup {m}
               /\ materials[m].loc \in {st[p].loc, NULL}
               /\ \A i \in unplaced \ {st[p].id} : materials[i] = old[i]

\* A Move has created a record at a destination for which an unplaced
\* record of the same stock and owner was there to reuse.
C21_Witness ==
    \E p \in active :
        /\ Succeeded(p) /\ st[p].cmd = "Move"
        /\ st[p].matId \notin DOMAIN pre[p].materials
        /\ materials[st[p].matId].loc = st[p].loc
        /\ RecordsAt(pre[p].materials, materials[st[p].matId].stock,
                     materials[st[p].matId].owner, NULL) # {}

\* The (material, cost) pairs of the lots of `pr`.
LotPairs(pr) == {<<pr[i].mat, pr[i].cost>> : i \in DOMAIN pr}

\* No two lots of `pr` are of one material and one cost.
OneLotPerPair(pr) ==
    \A i, j \in DOMAIN pr : (pr[i].mat = pr[j].mat /\ pr[i].cost = pr[j].cost) => i = j

\* C22: there is at most one lot per (material, cost) pair, live or at
\* quantity 0, among the committed lots and in what every open transaction
\* sees; and a pair that had a lot when a command began has that same lot
\* when it has ended.
C22_OneLotPerMaterialAndCost ==
    /\ OneLotPerPair(prices)
    /\ \A p \in Procs : OneLotPerPair(PricesView(p))
    /\ \A p \in active : Done(p) =>
           \A i \in DOMAIN pre[p].prices :
               /\ i \in DOMAIN prices
               /\ prices[i].mat = pre[p].prices[i].mat
               /\ prices[i].cost = pre[p].prices[i].cost

\* A Move has added to a lot its destination already had, and has put back
\* nothing else: no lot was created.
C22_Witness ==
    \E p \in active :
        /\ Succeeded(p) /\ st[p].cmd = "Move"
        /\ st[p].id # st[p].matId
        /\ st[p].priceId \in DOMAIN pre[p].prices
        /\ prices[st[p].priceId].qty > pre[p].prices[st[p].priceId].qty
        /\ DOMAIN prices = DOMAIN pre[p].prices

\* The ledger rows of `log` written for lot l.
RowsOf(log, l) == {k \in 1..Len(log) : log[k].price = l}

\* What the last command of p made of the committed quantity of lot l.
LotChange(p, l) ==
    prices[l].qty - (IF l \in DOMAIN pre[p].prices THEN pre[p].prices[l].qty ELSE 0)

\* C23: the ledger only grows, a command leaving the rows committed before
\* it as they were; and a successful Receive, Move or Remove has appended one
\* row per lot it touched, no lot having two: for every lot whose committed
\* quantity it changed, exactly one row, whose delta is that change.
C23_OneEntryPerLotTouched ==
    \A p \in active :
        /\ Len(pre[p].log) <= Len(transactions_log)
        /\ SubSeq(transactions_log, 1, Len(pre[p].log)) = pre[p].log
        /\ (Succeeded(p) /\ st[p].cmd \in {"Receive", "Move", "Remove"}) =>
               \A l \in DOMAIN prices :
                   /\ Cardinality(RowsOf(NewLog(p), l)) <= 1
                   /\ LotChange(p, l) # 0 =>
                          /\ Cardinality(RowsOf(NewLog(p), l)) = 1
                          /\ \A k \in RowsOf(NewLog(p), l) :
                                 NewLog(p)[k].qty = LotChange(p, l)

\* What holds of C23: the ledger only grows, and every lot whose committed
\* quantity a successful command changed has exactly one new row, of that
\* change; a lot taken from and put back to by one Move has two.
C23_LedgerAppendOnly ==
    \A p \in active :
        /\ Len(pre[p].log) <= Len(transactions_log)
        /\ SubSeq(transactions_log, 1, Len(pre[p].log)) = pre[p].log
        /\ (Succeeded(p) /\ st[p].cmd \in {"Receive", "Move", "Remove"}) =>
               \A l \in DOMAIN prices :
                   LotChange(p, l) # 0 =>
                       /\ Cardinality(RowsOf(NewLog(p), l)) = 1
                       /\ \A k \in RowsOf(NewLog(p), l) : NewLog(p)[k].qty = LotChange(p, l)

\* A Move has changed two lots of its source and two of its destination,
\* and has written four rows.
C23_Witness ==
    \E p \in active :
        /\ Succeeded(p) /\ st[p].cmd = "Move"
        /\ Cardinality({l \in DOMAIN prices : LotChange(p, l) < 0}) = 2
        /\ Cardinality({l \in DOMAIN prices : LotChange(p, l) > 0}) = 2
        /\ Len(NewLog(p)) = 4

\* C24: Adjust changes the primary flag of the material it names, to the
\* value it was given, and nothing else; so an Adjust that finds the flag at
\* that value already, as a second one of the same request does, changes
\* nothing at all. A failed Adjust changes nothing.
C24_AdjustOnlySetsPrimary ==
    \A p \in active :
        (Done(p) /\ st[p].cmd = "Adjust") =>
            LET old == pre[p]
                m == st[p].id
            IN /\ prices = old.prices
               /\ transactions_log = old.log
               /\ incoming_materials = old.incoming
               /\ DOMAIN materials = DOMAIN old.materials
               /\ \A i \in DOMAIN materials \ {m} : materials[i] = old.materials[i]
               /\ materials[m] = [old.materials[m] EXCEPT
                                     !.primary = IF st[p].result = "ok"
                                                 THEN st[p].primary ELSE @]
               /\ old.materials[m].primary = st[p].primary => Db = old

\* An Adjust has set the flag of a material that had it set by an earlier
\* one, stock, lots and ledger rows being there.
C24_Witness ==
    \E p \in active :
        /\ Done(p) /\ st[p].cmd = "Adjust" /\ st[p].result = "ok"
        /\ st[p].primary
        /\ pre[p].materials[st[p].id].primary
        /\ materials[st[p].id].qty > 0
        /\ prices # <<>> /\ transactions_log # <<>>

\* C25: every Move, run alone and with no store call failing, comes to its
\* end, its transaction committed or rolled back.
C25_MoveTerminates ==
    \A p \in Procs :
        (st[p].cmd = "Move" /\ st[p].pc # "idle") ~> (st[p].pc = "idle" /\ ~tx[p].open)

\* C26: in every committed state, Receive and Move commands running
\* concurrently, no two located materials with a location share stock,
\* location and owner.
C26_OneRecordPerLocation ==
    \A i, j \in DOMAIN materials :
        (/\ materials[i].loc # NULL
         /\ materials[i].stock = materials[j].stock
         /\ materials[i].loc = materials[j].loc
         /\ materials[i].owner = materials[j].owner)
        => i = j
====
